---------------------------- MODULE Spec2Model ----------------------------
(***************************************************************************)
(* In a Nutshell: the /api/generate endpoint (route.js), the single-page   *)
(* UI (page.js) and its section parser, as a state machine.                *)
(*                                                                         *)
(* Text is a sequence of one-character strings, so that length, trim and   *)
(* the regular expressions of the parser are computed on characters.       *)
(***************************************************************************)
EXTENDS Integers, Sequences, FiniteSets, TLC

VARIABLES
    apiKey,     \* process.env.OPENAI_API_KEY is set (truthy)
    reqs,       \* the HTTP requests under way (on the wire or in POST), by slot
    topic,      \* UI state: useState('') of the input
    result,     \* UI state: the RawReply shown
    loading,    \* UI state: a request is in flight
    error,      \* UI state: the error text
    clipboard,  \* the text on the system clipboard
    variant,    \* which version of the component Home is mounted
    copyFeedback, \* UI state of the page with copy feedback: the feedback text
    writes,     \* the texts of the clipboard writes that have not settled
    timers,     \* the pending setTimeout callbacks: the time left to each, in ms
    shownFor,   \* the time the feedback text has been shown, in ms
    bodies,     \* parser: the section bodies the reply was written with
    raw,        \* parser: the RawReply handed to parseResponse
    form,       \* parser: the form the reply was written in
    parser,     \* parser: which parseResponse has run on raw ("none": not yet)
    sections,   \* parser: the record parseResponse returned
    itemText,   \* item parser: the Essentials text handed to renderEssentials
    blocks,     \* item parser: the numbered blocks the text was written from
    cards,      \* item parser: the cards renderEssentials returned
    drawn       \* item parser: renderEssentials has run on itemText

vars == <<apiKey, reqs, topic, result, loading, error, clipboard, variant,
          copyFeedback, writes, timers, shownFor, bodies, raw, form,
          parser, sections, itemText, blocks, cards, drawn>>
copyVars == <<variant, copyFeedback, writes, timers, shownFor>>
uiVars == <<topic, result, loading, error, clipboard, copyVars>>
parseVars == <<bodies, raw, form, parser, sections>>
itemVars == <<itemText, blocks, cards, drawn>>

---------------------------------------------------------------------------
(* Bounds of the model *)

\* HTTP requests that may be under way at once
MaxInFlight == 2

\* numbered blocks an Essentials text is written from
MaxItems == 3

\* lines of an Essentials text that is not written from blocks
MaxLines == 3

\* copies under way at once: clipboard writes that have not settled and
\* feedback timers that have not fired
MaxCopies == 2

(* Program constants *)

\* route.js: if (topic.length > 200)
MaxTopicLen == 200

\* setTimeout(() => setCopyFeedback(''), 2000)
FeedbackMs == 2000

---------------------------------------------------------------------------
(* Characters and strings *)

Pad(n, c) == [i \in 1..n |-> c]

\* the white space of the model's alphabet (JavaScript \s and String.trim)
IsWs(c) == c \in {" ", "\t", "\n"}

\* the first position that holds no white space (Len + 1: there is none)
FirstNonWs(s) ==
    CHOOSE i \in 1..(Len(s) + 1) :
        /\ i = Len(s) + 1 \/ ~IsWs(s[i])
        /\ \A j \in 1..(i - 1) : IsWs(s[j])

\* the last position that holds no white space (0: there is none)
LastNonWs(s) ==
    CHOOSE i \in 0..Len(s) :
        /\ i = 0 \/ ~IsWs(s[i])
        /\ \A j \in (i + 1)..Len(s) : IsWs(s[j])

\* String.prototype.trim: drops leading and trailing white space only
trim(s) == SubSeq(s, FirstNonWs(s), LastNonWs(s))

---------------------------------------------------------------------------
(* page.js: parseResponse, the Section Parser *)

UpperCase == <<"A", "B", "C", "D", "E", "F", "G", "H", "I", "J", "K", "L", "M",
               "N", "O", "P", "Q", "R", "S", "T", "U", "V", "W", "X", "Y", "Z">>
LowerCase == <<"a", "b", "c", "d", "e", "f", "g", "h", "i", "j", "k", "l", "m",
               "n", "o", "p", "q", "r", "s", "t", "u", "v", "w", "x", "y", "z">>

\* the letter c folded to lower case (the flag i of a regular expression)
Lower(c) ==
    IF \E k \in 1..Len(UpperCase) : UpperCase[k] = c
    THEN LowerCase[CHOOSE k \in 1..Len(UpperCase) : UpperCase[k] = c]
    ELSE c

InANutshell == <<"I", "n", " ", "a", " ", "N", "u", "t", "s", "h", "e", "l", "l">>
TheEssentials == <<"T", "h", "e", " ", "E", "s", "s", "e", "n", "t", "i", "a", "l", "s">>
WhyItMatters == <<"W", "h", "y", " ", "i", "t", " ", "M", "a", "t", "t", "e", "r", "s">>

\* the header phrase and the ordinal of each section
Phrase == [nutshell |-> InANutshell, essentials |-> TheEssentials, context |-> WhyItMatters]
Ordinal == [nutshell |-> "1", essentials |-> "2", context |-> "3"]
SectionNames == {"nutshell", "essentials", "context"}

\* lit stands in s at position i, letter case ignored
MatchCI(s, i, lit) ==
    /\ i >= 1
    /\ i + Len(lit) - 1 <= Len(s)
    /\ \A k \in 1..Len(lit) : Lower(s[i + k - 1]) = Lower(lit[k])

\* \s* from position i on: the first position at or after i that holds no
\* white space
WsRunEnd(s, i) ==
    CHOOSE j \in i..(Len(s) + 1) :
        /\ j = Len(s) + 1 \/ ~IsWs(s[j])
        /\ \A k \in i..(j - 1) : IsWs(s[k])

IsColonOrWs(c) == c = ":" \/ IsWs(c)

\* [:\s]* from position i on: the first position at or after i that holds
\* neither a colon nor white space
ColonWsRunEnd(s, i) ==
    CHOOSE j \in i..(Len(s) + 1) :
        /\ j = Len(s) + 1 \/ ~IsColonOrWs(s[j])
        /\ \A k \in i..(j - 1) : IsColonOrWs(s[k])

\* (?=[123]\.\s) at position i
SplitAhead(s, i) ==
    /\ i + 2 <= Len(s)
    /\ s[i] \in {"1", "2", "3"}
    /\ s[i + 1] = "."
    /\ IsWs(s[i + 2])

\* text.split(/(?:^|\n)(?=[123]\.\s)/): the separators are the newlines
\* that stand before an ordinal; the empty match of ^ at the start of the
\* text splits nothing
SplitPoints(s) == {q \in 1..Len(s) : s[q] = "\n" /\ SplitAhead(s, q + 1)}

\* the k-th smallest element of the set of numbers S
Kth(S, k) == CHOOSE x \in S : Cardinality({y \in S : y < x}) = k - 1

\* the parts split returns, in text order
SplitParts(s) ==
    LET cuts == SplitPoints(s) \cup {0, Len(s) + 1}
    IN  [k \in 1..(Cardinality(cuts) - 1) |->
            SubSeq(s, Kth(cuts, k) + 1, Kth(cuts, k + 1) - 1)]

HeaderEndAnyTitle(part, name) ==
    IF /\ Len(part) >= 3
       /\ part[1] = Ordinal[name]
       /\ part[2] = "."
       /\ IsWs(part[3])
    THEN WsRunEnd(part, 3)
    ELSE 0

\* /^1\.\s+In a Nutshell/i on a trimmed part: the position after the
\* phrase, 0 when the part does not start with the header
HeaderEnd(part, name) ==
    LET ws == WsRunEnd(part, 3)
    IN  IF /\ Len(part) >= 3
           /\ part[1] = Ordinal[name]
           /\ part[2] = "."
           /\ IsWs(part[3])
           /\ MatchCI(part, ws, Phrase[name])
        THEN ws + Len(Phrase[name])
        ELSE 0

\* cleanPart.replace(/^1\.\s+In a Nutshell[:\s]*/i, '').trim()
StripHeader(part, name) ==
    trim(SubSeq(part, ColonWsRunEnd(part, HeaderEnd(part, name)), Len(part)))

\* parseResponse of page.js: the last part that starts with the header of
\* a section gives the section; a section no part gives stays ''
parseResponse(text) ==
    LET parts == SplitParts(text)
        clean == [k \in DOMAIN parts |-> trim(parts[k])]
        hits(name) == {k \in DOMAIN clean : HeaderEnd(clean[k], name) # 0}
        last(name) == CHOOSE k \in hits(name) : \A j \in hits(name) : j <= k
    IN  [name \in SectionNames |->
            IF hits(name) = {} THEN <<>> ELSE StripHeader(clean[last(name)], name)]

---------------------------------------------------------------------------
(* The parseResponse of the page with copy feedback: three text.match calls *)

HeaderAtOrdinalOptional(s, i, name) ==
    LET ws == WsRunEnd(s, i + 2)
    IN  IF /\ i >= 1
           /\ i + 1 <= Len(s)
           /\ s[i] = Ordinal[name]
           /\ s[i + 1] = "."
           /\ MatchCI(s, ws, Phrase[name])
        THEN ws + Len(Phrase[name])
        ELSE IF MatchCI(s, i, Phrase[name]) THEN i + Len(Phrase[name]) ELSE 0

\* 1\.\s*In a Nutshell at position i: the position after the phrase, 0
\* when the header does not stand there
HeaderAt(s, i, name) ==
    LET ws == WsRunEnd(s, i + 2)
    IN  IF /\ i >= 1
           /\ i + 1 <= Len(s)
           /\ s[i] = Ordinal[name]
           /\ s[i + 1] = "."
           /\ MatchCI(s, ws, Phrase[name])
        THEN ws + Len(Phrase[name])
        ELSE 0

\* [:\s]*\n from position e on: the position of the newline the greedy
\* star leaves to \n (the last one of the run), 0 when the run has none
HeaderNewline(s, e) ==
    LET nl == {j \in e..(ColonWsRunEnd(s, e) - 1) : s[j] = "\n"}
    IN  IF nl = {} THEN 0 ELSE CHOOSE j \in nl : \A k \in nl : k <= j

\* the header with its line end matches at i
MatchesAt(s, i, name) ==
    /\ HeaderAt(s, i, name) # 0
    /\ HeaderNewline(s, HeaderAt(s, i, name)) # 0

\* (?=\n\s*2\.\s*The Essentials) at position p
NextAhead(s, p, name) ==
    /\ p >= 1
    /\ p <= Len(s)
    /\ s[p] = "\n"
    /\ HeaderAt(s, WsRunEnd(s, p + 1), name) # 0

\* the section the regular expression of `name' captures: from after the
\* header line to the header of `next' (to the end when next = "none" or
\* when that header does not follow); '' when the expression does not match
Capture(s, name, next) ==
    LET starts == {i \in 1..Len(s) : MatchesAt(s, i, name)}
        i0 == CHOOSE i \in starts : \A j \in starts : i <= j
        g == HeaderNewline(s, HeaderAt(s, i0, name)) + 1
        stops == {p \in g..Len(s) : next # "none" /\ NextAhead(s, p, next)} \cup {Len(s) + 1}
        p0 == CHOOSE p \in stops : \A q \in stops : p <= q
    IN  IF starts = {} THEN <<>> ELSE trim(SubSeq(s, g, p0 - 1))

\* parseResponse with nutshellMatch, essentialsMatch and contextMatch
parseResponseMatch(text) ==
    [ nutshell |-> Capture(text, "nutshell", "essentials"),
      essentials |-> Capture(text, "essentials", "context"),
      context |-> Capture(text, "context", "none") ]

---------------------------------------------------------------------------
(* The parseResponse of the first page: startsWith on the parts *)

Digits == {"0", "1", "2", "3", "4", "5", "6", "7", "8", "9"}

\* (?=\d\.\s) at position i
SplitAheadDigit(s, i) ==
    /\ i + 2 <= Len(s)
    /\ s[i] \in Digits
    /\ s[i + 1] = "."
    /\ IsWs(s[i + 2])

\* text.split(/(?:^|\n)(?=\d\.\s)/)
SplitPartsDigit(s) ==
    LET cuts == {q \in 1..Len(s) : s[q] = "\n" /\ SplitAheadDigit(s, q + 1)}
                \cup {0, Len(s) + 1}
    IN  [k \in 1..(Cardinality(cuts) - 1) |->
            SubSeq(s, Kth(cuts, k) + 1, Kth(cuts, k + 1) - 1)]

\* part.startsWith('1. In a Nutshell'): the letters as they are written
StartsWith(part, name) ==
    LET lit == <<Ordinal[name], ".", " ">> \o Phrase[name]
    IN  /\ Len(part) >= Len(lit)
        /\ SubSeq(part, 1, Len(lit)) = lit

\* part.replace(/^1\.\s+In a Nutshell\s*/i, ''): the part itself when the
\* expression does not match
ReplaceHeader(part, name) ==
    IF HeaderEnd(part, name) = 0 THEN part
    ELSE SubSeq(part, WsRunEnd(part, HeaderEnd(part, name)), Len(part))

\* parseResponse of the first page; the context is stripped by two
\* replace calls, for 'Why it Matters' and for 'Why It Matters'
parseResponseStartsWith(text) ==
    LET parts == SplitPartsDigit(text)
        clean == [k \in DOMAIN parts |-> trim(parts[k])]
        hits(name) == {k \in DOMAIN clean : StartsWith(clean[k], name)}
        last(name) == CHOOSE k \in hits(name) : \A j \in hits(name) : j <= k
        strip(name, part) ==
            IF name = "context"
            THEN trim(ReplaceHeader(ReplaceHeader(part, name), name))
            ELSE trim(ReplaceHeader(part, name))
    IN  [name \in SectionNames |->
            IF hits(name) = {} THEN <<>> ELSE strip(name, clean[last(name)])]

---------------------------------------------------------------------------
(* The replies the parsers are run on: three headers, each on a line of   *)
(* its own, each followed by the lines of its body                        *)

Line(h) == h \o <<"\n">>

\* "1. In a Nutshell", "2. The Essentials", "3. Why it Matters"
Header(name) == <<Ordinal[name], ".", " ">> \o Phrase[name]

NutshellBodies ==
    { <<"N">>, <<"N", " ", "n">>, <<" ", "N", " ">>, <<"N", "\n", "\n", "n">> }

EssentialsBodies ==
    { <<"E">>,
      <<"-", " ", "A">>,
      <<"1", ".", " ", "A">>,
      <<"4", ".", " ", "D">>,
      <<"1", ".", " ", "A", "\n", "V", ":", " ", "x", "\n", "2", ".", " ", "B">>,
      <<"A", ":", " ", "x", "\n", "3", ".", " ", "C">> }

ContextBodies == { <<"W">>, <<"W", " ", "w">>, <<"W", "\n">> }

\* the reply made of the three headers in order, with these bodies
Compose(b) ==
    Line(Header("nutshell")) \o Line(b.nutshell)
    \o Line(Header("essentials")) \o Line(b.essentials)
    \o Line(Header("context")) \o b.context

BodyTriples ==
    { [nutshell |-> n, essentials |-> e, context |-> c] :
        n \in NutshellBodies, e \in EssentialsBodies, c \in ContextBodies }

\* the letter c folded to upper case
Upper(c) ==
    IF \E k \in 1..Len(LowerCase) : LowerCase[k] = c
    THEN UpperCase[CHOOSE k \in 1..Len(LowerCase) : LowerCase[k] = c]
    ELSE c

\* the header phrases as SYSTEM_PROMPT writes them: "Why It Matters"
PromptPhrase ==
    [Phrase EXCEPT !.context =
        <<"W", "h", "y", " ", "I", "t", " ", "M", "a", "t", "t", "e", "r", "s">>]

\* the header phrase of a section in a capitalisation
Cased(name, caps) ==
    CASE caps = "prompt" -> PromptPhrase[name]
      [] caps = "upper" -> [k \in 1..Len(Phrase[name]) |-> Upper(Phrase[name][k])]
      [] caps = "lower" -> [k \in 1..Len(Phrase[name]) |-> Lower(Phrase[name][k])]
      [] OTHER -> Phrase[name]

\* the form of a reply: the capitalisation of its headers, whether they
\* carry their ordinals, and the section it leaves out ("none": no section)
Literal == [caps |-> "literal", ordinals |-> TRUE, missing |-> "none"]

\* the form of a text that was not composed of sections
Plain == [caps |-> "none", ordinals |-> FALSE, missing |-> "all"]

Forms ==
    { [Literal EXCEPT !.caps = c] : c \in {"literal", "prompt", "upper", "lower"} }
    \cup { [Literal EXCEPT !.ordinals = FALSE],
           [Literal EXCEPT !.ordinals = FALSE, !.caps = "prompt"] }
    \cup { [Literal EXCEPT !.missing = m] : m \in SectionNames }

HeaderAs(name, f) ==
    (IF f.ordinals THEN <<Ordinal[name], ".", " ">> ELSE <<>>) \o Cased(name, f.caps)

\* the reply with the bodies b written in the form f
ComposeAs(b, f) ==
    LET piece(name) ==
            IF f.missing = name THEN <<>>
            ELSE Line(HeaderAs(name, f)) \o b[name]
                 \o (IF name = "context" THEN <<>> ELSE <<"\n">>)
    IN  piece("nutshell") \o piece("essentials") \o piece("context")

\* the bodies a reply of the form f holds
Written(b, f) == [name \in SectionNames |-> IF f.missing = name THEN <<>> ELSE b[name]]

\* texts that hold none of the three header phrases
PlainReplies ==
    { <<"R">>,
      <<"1", ".", " ", "A", "\n", "x", "\n", "2", ".", " ", "B", "\n", "3", ".", " ", "C">>,
      <<"1", ".", " ", "I", "n", " ", "a", "\n", "N", "u", "t", "s", "h", "e", "l", "l", "\n", "x">>,
      <<"S", ":", "\n", "-", " ", "a", "\n", "-", " ", "b">>,
      <<"2", ".", " ", "T", "h", "e", " ", "E", "s", "s", "e", "n", "t", "i", "a", "l", "\n",
        "3", ".", " ", "W", "h", "y", " ", "M", "a", "t", "t", "e", "r", "s", "\n", "w">> }

---------------------------------------------------------------------------
(* JSON values a request body can give to the field "topic" *)

Str(s) == [t |-> "string", s |-> s, n |-> 0]
Num(n) == [t |-> "number", s |-> <<>>, n |-> n]
Other(t) == [t |-> t, s |-> <<>>, n |-> 0]

\* JavaScript truthiness, as "!topic" reads it
Truthy(v) ==
    CASE v.t = "string" -> v.s # <<>>
      [] v.t = "number" -> v.n # 0
      [] v.t \in {"object", "array"} -> TRUE
      [] OTHER -> FALSE   \* undefined, null, false

\* only a string has a method trim; topic.trim() on another truthy value
\* throws a TypeError
HasTrim(v) == v.t = "string"

\* the topics the model sends: short ones, with white space in every
\* position, and long ones around the limit
ShortTopics ==
    { <<>>, <<" ">>, <<"\n", "\t">>, <<"a">>, <<" ", "a", " ", "b", " ">> }

LongTopics ==
    { Pad(MaxTopicLen, "a"), Pad(MaxTopicLen + 1, "a"),
      <<" ">> \o Pad(MaxTopicLen, "a"),
      Pad(MaxTopicLen + 1, " ") }

TopicValues ==
    { Str(s) : s \in ShortTopics \cup LongTopics }
    \cup { Num(0), Num(5), Other("undefined"), Other("null"), Other("false"),
           Other("object"), Other("array") }

\* what request.json() meets: text that is no JSON, the JSON value null,
\* or an object whose field topic is one of TopicValues (undefined: no field)
Bodies ==
    { [kind |-> "malformed", topic |-> Other("undefined")],
      [kind |-> "null", topic |-> Other("undefined")] }
    \cup { [kind |-> "object", topic |-> v] : v \in TopicValues }

---------------------------------------------------------------------------
(* route.js: the endpoint POST /api/generate *)

SYSTEM_PROMPT == "You are In a Nutshell. ..."

TopicRequired == [status |-> 400, body |-> [error |-> "Topic is required."]]
TopicTooLong == [status |-> 400, body |-> [error |-> "Topic must be 200 characters or less."]]
NotConfigured == [status |-> 500, body |-> [error |-> "API key not configured."]]
SomethingWrong == [status |-> 500, body |-> [error |-> "Something went wrong. Please try again."]]
Success(content) == [status |-> 200, body |-> [result |-> content]]
NoResponse == [status |-> 0, body |-> <<>>]

\* what a step of POST ends in
Return(resp) == [kind |-> "return", response |-> resp, detail |-> "", call |-> <<>>]
Throw(detail) == [kind |-> "throw", response |-> NoResponse, detail |-> detail, call |-> <<>>]
Await(call) == [kind |-> "await", response |-> NoResponse, detail |-> "", call |-> call]

\* const { topic } = await request.json()
RequestJson(body) ==
    CASE body.kind = "malformed" -> Throw("SyntaxError: Unexpected token in JSON")
      [] body.kind = "null" -> Throw("TypeError: Cannot destructure property 'topic' of null")
      [] OTHER -> Return(NoResponse)

TopicMissingNoTrim(v) ==
    IF ~Truthy(v) THEN "yes" ELSE IF ~HasTrim(v) THEN "throws" ELSE "no"

\* if (!topic || !topic.trim())
TopicMissing(v) ==
    IF ~Truthy(v) THEN "yes"
    ELSE IF ~HasTrim(v) THEN "throws"
    ELSE IF trim(v.s) = <<>> THEN "yes" ELSE "no"

TopicOverLengthOffByOne(v) == Len(v.s) >= MaxTopicLen

\* if (topic.length > 200)
TopicOverLength(v) == Len(v.s) > MaxTopicLen

KeyMissingUnchecked(key) == FALSE

\* if (!process.env.OPENAI_API_KEY)
KeyMissing(key) == ~key

UserContentTrimmed(v) == trim(v.s)

\* { role: 'user', content: topic }
UserContent(v) == v.s

\* the argument of openai.chat.completions.create
CreateArgs(v) ==
    [ model |-> "gpt-4.1-mini",
      messages |-> << [role |-> "system", content |-> SYSTEM_PROMPT],
                      [role |-> "user", content |-> UserContent(v)] >>,
      temperature |-> "0.4",
      max_completion_tokens |-> 1500 ]

CatchLeaky(detail) == [status |-> 500, body |-> [error |-> detail]]

\* catch (error): console.error, then the generic message
Catch(detail) == SomethingWrong

PostBeginKeyFirst(body, key) ==
    IF RequestJson(body).kind = "throw" THEN RequestJson(body)
    ELSE LET v == body.topic
             missing == TopicMissing(v)
         IN  CASE KeyMissing(key) -> Return(NotConfigured)
               [] missing = "throws" -> Throw("TypeError: topic.trim is not a function")
               [] missing = "yes" -> Return(TopicRequired)
               [] TopicOverLength(v) -> Return(TopicTooLong)
               [] OTHER -> Await(CreateArgs(v))

\* POST from its first line to its first return, throw or await
PostBegin(body, key) ==
    IF RequestJson(body).kind = "throw" THEN RequestJson(body)
    ELSE LET v == body.topic
             missing == TopicMissing(v)
         IN  CASE missing = "throws" -> Throw("TypeError: topic.trim is not a function")
               [] missing = "yes" -> Return(TopicRequired)
               [] TopicOverLength(v) -> Return(TopicTooLong)
               [] KeyMissing(key) -> Return(NotConfigured)
               [] OTHER -> Await(CreateArgs(v))

\* what the awaited call to the completion service can end in: a completion
\* whose first choice has content, a completion without content (no
\* choices, or empty content), or an exception
\* a text without any header, and two replies in the format of the prompt
Replies ==
    { <<"R">>,
      Compose([nutshell |-> <<"N">>, essentials |-> <<"E">>, context |-> <<"W">>]),
      Compose([nutshell |-> <<"N">>, essentials |-> <<"1", ".", " ", "A">>,
               context |-> <<"W">>]) }
NoCompletion == [kind |-> "none", content |-> <<>>, detail |-> ""]
ErrorDetails == { "401 Incorrect API key provided: sk-live", "ETIMEDOUT at node:net" }
Completions ==
    { [kind |-> "content", content |-> c, detail |-> ""] : c \in Replies }
    \cup { [kind |-> k, content |-> <<>>, detail |-> ""] :
              k \in {"no choices", "empty content"} }
    \cup { [kind |-> "throws", content |-> <<>>, detail |-> d] : d \in ErrorDetails }

\* if (!completion.choices?.[0]?.message?.content)
NoContent(c) == c.kind # "content"

\* POST from the return of the awaited call to its end
PostResume(c) ==
    CASE c.kind = "throws" -> Throw(c.detail)
      [] NoContent(c) -> Throw("No content returned from OpenAI")
      [] OTHER -> Return(Success(c.content))

---------------------------------------------------------------------------
(* The requests under way.  A request is on the wire ("sent"), in POST at  *)
(* its await ("awaiting"), or answered ("done") and not yet taken by its   *)
(* sender.  calls are the invocations of the completion service POST made  *)
(* for it, completion what the service answered, logged what console.error *)
(* wrote.                                                                  *)

Slots == 1..MaxInFlight

Idle ==
    [ pc |-> "idle", origin |-> "none", body |-> [kind |-> "none", topic |-> Other("undefined")],
      calls |-> <<>>, completion |-> NoCompletion, response |-> NoResponse,
      logged |-> <<>> ]

Sent(origin, body) == [Idle EXCEPT !.pc = "sent", !.origin = origin, !.body = body]

AfterWithRetry(r, o) ==
    CASE o.kind = "await" -> [r EXCEPT !.pc = "awaiting", !.calls = Append(@, o.call)]
      [] o.kind = "throw" /\ Len(r.calls) = 1 ->
            [r EXCEPT !.pc = "awaiting", !.calls = Append(@, @[1]),
                      !.logged = Append(@, o.detail)]
      [] o.kind = "throw" ->
            [r EXCEPT !.pc = "done", !.response = Catch(o.detail),
                      !.logged = Append(@, o.detail)]
      [] OTHER -> [r EXCEPT !.pc = "done", !.response = o.response]

\* the request after a step of POST that ended in o
After(r, o) ==
    CASE o.kind = "await" -> [r EXCEPT !.pc = "awaiting", !.calls = Append(@, o.call)]
      [] o.kind = "throw" ->
            [r EXCEPT !.pc = "done", !.response = Catch(o.detail),
                      !.logged = Append(@, o.detail)]
      [] OTHER -> [r EXCEPT !.pc = "done", !.response = o.response]

\* a client other than the page posts a body: POST starts on its arrival
\* and runs to its first return or to the await of the completion call
ClientPosts(i, body) ==
    /\ reqs[i].pc = "idle"
    /\ reqs' = [reqs EXCEPT ![i] = After(Sent("client", body), PostBegin(body, apiKey))]
    /\ UNCHANGED <<apiKey, uiVars, parseVars, itemVars>>

\* the fetch of the page arrives: POST runs to its first return or to the
\* await of the completion call
POST(i) ==
    /\ reqs[i].pc = "sent"
    /\ reqs' = [reqs EXCEPT ![i] = After(@, PostBegin(@.body, apiKey))]
    /\ UNCHANGED <<apiKey, uiVars, parseVars, itemVars>>

\* the completion call settles and POST runs to its end
CompletionSettles(i, c) ==
    /\ reqs[i].pc = "awaiting"
    /\ reqs' = [reqs EXCEPT ![i] = After([@ EXCEPT !.completion = c], PostResume(c))]
    /\ UNCHANGED <<apiKey, uiVars, parseVars, itemVars>>

\* the client takes its response
ClientReceives(i) ==
    /\ reqs[i].pc = "done"
    /\ reqs[i].origin = "client"
    /\ reqs' = [reqs EXCEPT ![i] = Idle]
    /\ UNCHANGED <<apiKey, uiVars, parseVars, itemVars>>

---------------------------------------------------------------------------
(* page.js: the component Home *)

GenericError == "Something went wrong. Please try again."

\* the versions of Home: page.js, and the page with copy feedback
Variants == {"page.js", "part_002"}

\* the Error handleGenerate throws on a response: its message, "" when it
\* throws nothing.  if (!response.ok) throw new Error(data.error ||
\* 'Failed to fetch'); the page with copy feedback also throws on a
\* response without result
Thrown(v, resp) ==
    IF ~(resp.status >= 200 /\ resp.status <= 299)
    THEN IF "error" \in DOMAIN resp.body /\ resp.body.error # ""
         THEN resp.body.error ELSE "Failed to fetch"
    ELSE IF v = "part_002" /\ ("result" \notin DOMAIN resp.body \/ resp.body.result = <<>>)
         THEN "No result returned" ELSE ""

\* catch (err): page.js sets the generic text; the page with copy feedback
\* sets err.message || the generic text
ErrorText(v, message) ==
    IF v = "part_002" /\ message # "" THEN message ELSE GenericError

\* the message of the TypeError of a fetch that rejects
FetchFailed == "Failed to fetch"

\* what the user can put into the input (maxLength = 200)
InputValues ==
    { <<>>, <<" ">>, <<"a">>, <<"b">>, <<" ", "a", " ", "b", " ">>, Pad(MaxTopicLen, "a") }

\* <input disabled={loading}>
InputDisabled == loading

ButtonDisabledNever == FALSE

\* <button disabled={loading || !topic.trim()}>
ButtonDisabled == loading \/ trim(topic) = <<>>

\* the slot the next fetch takes
FreeSlot == CHOOSE i \in Slots : reqs[i].pc = "idle" /\ \A j \in 1..(i - 1) : reqs[j].pc # "idle"

\* body: JSON.stringify({ topic })
FetchBody(t) == [kind |-> "object", topic |-> Str(t)]

\* a handleGenerate without setResult(''): the old reply stays
handleGenerateKeepingResult ==
    IF trim(topic) = <<>>
    THEN UNCHANGED vars
    ELSE /\ \E i \in Slots : reqs[i].pc = "idle"
         /\ loading' = TRUE
         /\ error' = ""
         /\ reqs' = [reqs EXCEPT ![FreeSlot] = Sent("page", FetchBody(topic))]
         /\ UNCHANGED <<apiKey, topic, result, clipboard, copyVars, parseVars, itemVars>>

\* handleGenerate up to its await of fetch
handleGenerate ==
    IF trim(topic) = <<>>
    THEN UNCHANGED vars
    ELSE /\ \E i \in Slots : reqs[i].pc = "idle"
         /\ loading' = TRUE
         /\ error' = ""
         /\ result' = <<>>
         /\ reqs' = [reqs EXCEPT ![FreeSlot] = Sent("page", FetchBody(topic))]
         /\ UNCHANGED <<apiKey, topic, clipboard, copyVars, parseVars, itemVars>>

\* onChange={(e) => setTopic(e.target.value)}
onChange(v) ==
    /\ ~InputDisabled
    /\ topic' = v
    /\ UNCHANGED <<apiKey, reqs, result, loading, error, clipboard, copyVars, parseVars, itemVars>>

\* a click on GENERATE: a disabled button dispatches nothing
ClickGenerate == IF ButtonDisabled THEN UNCHANGED vars ELSE handleGenerate

\* if (e.key === 'Enter' && !loading) handleGenerate()
handleKeyDown == IF ~loading THEN handleGenerate ELSE UNCHANGED vars

\* Enter pressed on the input: a disabled input dispatches nothing
PressEnter == IF InputDisabled THEN UNCHANGED vars ELSE handleKeyDown

\* response.ok
Ok(resp) == resp.status >= 200 /\ resp.status <= 299

\* handleGenerate from the response of fetch to its end
FetchSettles(i) ==
    /\ reqs[i].pc = "done"
    /\ reqs[i].origin = "page"
    /\ IF Thrown(variant, reqs[i].response) = ""
       THEN /\ result' = reqs[i].response.body.result
            /\ error' = error
       ELSE /\ error' = ErrorText(variant, Thrown(variant, reqs[i].response))
            /\ result' = result
    /\ loading' = FALSE
    /\ reqs' = [reqs EXCEPT ![i] = Idle]
    /\ UNCHANGED <<apiKey, topic, clipboard, copyVars, parseVars, itemVars>>

\* a catch without finally: loading stays true
FetchRejectsNoFinally(i) ==
    /\ reqs[i].pc \in {"sent", "done"}
    /\ reqs[i].origin = "page"
    /\ error' = ErrorText(variant, FetchFailed)
    /\ reqs' = [reqs EXCEPT ![i] = Idle]
    /\ UNCHANGED <<apiKey, topic, result, loading, clipboard, copyVars, parseVars, itemVars>>

\* fetch rejects: the request is lost on its way, or its response is
FetchRejects(i) ==
    /\ reqs[i].pc \in {"sent", "done"}
    /\ reqs[i].origin = "page"
    /\ error' = ErrorText(variant, FetchFailed)
    /\ loading' = FALSE
    /\ reqs' = [reqs EXCEPT ![i] = Idle]
    /\ UNCHANGED <<apiKey, topic, result, clipboard, copyVars, parseVars, itemVars>>

\* the message the page with copy feedback throws when response.json()
\* throws
InvalidResponse == "Invalid response from server"

\* the response has come and its body is not JSON: await response.json()
\* throws, into the catch of handleGenerate
BodyUnparsable(i) ==
    /\ reqs[i].pc = "done"
    /\ reqs[i].origin = "page"
    /\ error' = ErrorText(variant, InvalidResponse)
    /\ loading' = FALSE
    /\ reqs' = [reqs EXCEPT ![i] = Idle]
    /\ UNCHANGED <<apiKey, topic, result, clipboard, copyVars, parseVars, itemVars>>

\* the result panel, with COPY TEXT and CLEAR / NEW, is rendered
PanelShown == result # <<>>

\* COPY TEXT: navigator.clipboard.writeText(result); the write is not
\* awaited, and the clipboard keeps its text when the browser refuses it
copyToClipboard ==
    /\ variant = "page.js"
    /\ PanelShown
    /\ clipboard' \in IF result # <<>> THEN {result, clipboard} ELSE {clipboard}
    /\ UNCHANGED <<apiKey, reqs, topic, result, loading, error, copyVars, parseVars, itemVars>>

\* CLEAR / NEW
clearAll ==
    /\ PanelShown
    /\ topic' = <<>>
    /\ result' = <<>>
    /\ error' = ""
    /\ UNCHANGED <<apiKey, reqs, loading, clipboard, copyVars, parseVars, itemVars>>

---------------------------------------------------------------------------
(* The page with copy feedback: copyToClipboard and its timers *)

Copied == "Copied to clipboard!"
FailedToCopy == "Failed to copy"

\* the steps in which the model lets time pass, in ms
Steps == {500, 1000}

\* COPY TEXT up to await navigator.clipboard.writeText(result)
copyToClipboardAsync ==
    /\ variant = "part_002"
    /\ PanelShown
    /\ Len(writes) + Len(timers) < MaxCopies
    /\ writes' = IF result # <<>> THEN Append(writes, result) ELSE writes
    /\ UNCHANGED <<apiKey, reqs, topic, result, loading, error, clipboard, variant,
                   copyFeedback, timers, shownFor, parseVars, itemVars>>

\* setTimeout(() => setCopyFeedback(''), 2000): one more timer; no timer
\* is ever cleared
SetTimeout(ts) == Append(ts, FeedbackMs)

\* the write settles: copyToClipboard from its await to its end, in the
\* try branch (ok) or in the catch branch
WriteSettles(ok) ==
    /\ writes # <<>>
    /\ writes' = Tail(writes)
    /\ clipboard' = IF ok THEN Head(writes) ELSE clipboard
    /\ copyFeedback' = IF ok THEN Copied ELSE FailedToCopy
    /\ timers' = SetTimeout(timers)
    /\ shownFor' = 0
    /\ UNCHANGED <<apiKey, reqs, topic, result, loading, error, variant, parseVars, itemVars>>

\* a timer is due: () => setCopyFeedback('')
TimerFires ==
    /\ timers # <<>>
    /\ \E k \in DOMAIN timers :
        /\ timers[k] = 0
        /\ timers' = [j \in 1..(Len(timers) - 1) |-> IF j < k THEN timers[j] ELSE timers[j + 1]]
    /\ copyFeedback' = ""
    /\ shownFor' = 0
    /\ UNCHANGED <<apiKey, reqs, topic, result, loading, error, clipboard, variant, writes,
                   parseVars, itemVars>>

\* d ms pass: no timer is left behind its time
Elapse(d) ==
    /\ timers # <<>>
    /\ \A k \in DOMAIN timers : timers[k] >= d
    /\ timers' = [k \in DOMAIN timers |-> timers[k] - d]
    /\ shownFor' = IF copyFeedback = "" THEN 0
                   ELSE IF shownFor + d > FeedbackMs THEN FeedbackMs ELSE shownFor + d
    /\ UNCHANGED <<apiKey, reqs, topic, result, loading, error, clipboard, variant,
                   copyFeedback, writes, parseVars, itemVars>>

---------------------------------------------------------------------------
(* The page with copy feedback: renderEssentials, the Item Parser *)

\* s.split(c) for the characters of C: the pieces between them, in order
SplitOn(s, C) ==
    LET cuts == {q \in 1..Len(s) : s[q] \in C} \cup {0, Len(s) + 1}
    IN  [k \in 1..(Cardinality(cuts) - 1) |->
            SubSeq(s, Kth(cuts, k) + 1, Kth(cuts, k + 1) - 1)]

\* .map(l => l.trim()).filter(l => l)
TrimmedNonEmpty(pieces) ==
    SelectSeq([k \in DOMAIN pieces |-> trim(pieces[k])], LAMBDA p : p # <<>>)

\* pieces.join(c)
RECURSIVE Join(_, _)
Join(pieces, c) ==
    IF pieces = <<>> THEN <<>>
    ELSE IF Len(pieces) = 1 THEN pieces[1]
    ELSE pieces[1] \o <<c>> \o Join(Tail(pieces), c)

\* \d+ from the start of the line: the first position that holds no digit
DigitRunEnd(line) ==
    CHOOSE j \in 1..(Len(line) + 1) :
        /\ j = Len(line) + 1 \/ line[j] \notin Digits
        /\ \A k \in 1..(j - 1) : line[k] \in Digits

IsNumberedItemOneDigit(line) ==
    /\ Len(line) >= 3
    /\ line[1] \in Digits
    /\ line[2] = "."
    /\ IsWs(line[3])

\* /^\d+\.\s/.test(trimmedLine)
IsNumberedItem(line) ==
    LET d == DigitRunEnd(line)
    IN  /\ d > 1
        /\ d + 1 <= Len(line)
        /\ line[d] = "."
        /\ IsWs(line[d + 1])

\* lines.forEach: a numbered line closes the current block and opens one;
\* any other line that is not blank is pushed to the current block, also
\* when no numbered line has opened one; the blocks are joined by '\n'
RawItems(text) ==
    LET lines == SplitOn(text, {"\n"})
        t == [k \in DOMAIN lines |-> trim(lines[k])]
        kept == {k \in DOMAIN t : t[k] # <<>>}
        opens == {k \in kept : IsNumberedItem(t[k]) \/ \A j \in kept : k <= j}
        inBlock(k) == {j \in kept : j >= k /\ \A o \in opens : ~(k < o /\ o <= j)}
        block(k) == [m \in 1..Cardinality(inBlock(k)) |-> t[Kth(inBlock(k), m)]]
    IN  [m \in 1..Cardinality(opens) |-> Join(block(Kth(opens, m)), "\n")]

\* lines[0].replace(/^\d+\.\s*/, '')
TitleLine(line) ==
    LET d == DigitRunEnd(line)
    IN  IF d > 1 /\ d <= Len(line) /\ line[d] = "."
        THEN SubSeq(line, WsRunEnd(line, d + 1), Len(line))
        ELSE line

Vibe == <<"V", "i", "b", "e">>

\* content.split(/[,;]/).map(v => v.trim()).filter(v => v)
VibeTags(content) == TrimmedNonEmpty(SplitOn(content, {",", ";"}))

\* one attribute line: the label before the first colon and the value
\* after it; the value of Vibe as tags; a line without colon as it is
Attribute(line) ==
    LET parts == SplitOn(line, {":"})
        label == trim(parts[1])
        content == trim(Join(Tail(parts), ":"))
    IN  IF Len(parts) > 1
        THEN IF Len(label) = Len(Vibe) /\ MatchCI(label, 1, Vibe)
             THEN [kind |-> "tags", label |-> label, value |-> <<>>, tags |-> VibeTags(content)]
             ELSE [kind |-> "pair", label |-> label, value |-> content, tags |-> <<>>]
        ELSE [kind |-> "line", label |-> <<>>, value |-> line, tags |-> <<>>]

\* rawItems.map: one card per block, with the title and the attributes
Card(itemBlock) ==
    LET lines == TrimmedNonEmpty(SplitOn(itemBlock, {"\n"}))
    IN  [ title |-> TitleLine(lines[1]),
          attributes |-> [k \in 1..(Len(lines) - 1) |-> Attribute(lines[k + 1])] ]

\* renderEssentials: the cards of the grid (none for '' and when no block
\* was found)
renderEssentials(text) ==
    IF text = <<>> THEN <<>>
    ELSE [m \in DOMAIN RawItems(text) |-> Card(RawItems(text)[m])]

---------------------------------------------------------------------------
(* page.js: renderEssentials, a list of lines, and the result panel *)

\* [a-zA-Z0-9\s]
IsTermChar(c) ==
    \/ \E k \in 1..Len(UpperCase) : c = UpperCase[k] \/ c = LowerCase[k]
    \/ c \in Digits
    \/ IsWs(c)

\* the separators of the model's alphabet among (—|-|–|:)
Separators == {"-", ":"}

\* line.match(/([a-zA-Z0-9\s]+)(—|-|–|:)(.+)/): the position of the
\* separator of the leftmost match, 0 when the line does not match
SeparatorAt(line) ==
    LET ok == {j \in 2..(Len(line) - 1) : line[j] \in Separators /\ IsTermChar(line[j - 1])}
    IN  IF ok = {} THEN 0 ELSE CHOOSE j \in ok : \A k \in ok : j <= k

\* the start of the run of [a-zA-Z0-9\s] that ends before position j
TermStart(line, j) ==
    CHOOSE i \in 1..(j - 1) :
        /\ \A k \in i..(j - 1) : IsTermChar(line[k])
        /\ i = 1 \/ ~IsTermChar(line[i - 1])

\* one <li>: the term and the definition, or the line as it is
ListItem(line) ==
    LET j == SeparatorAt(line)
    IN  IF j = 0 THEN [kind |-> "line", term |-> <<>>, def |-> <<>>, line |-> line]
        ELSE [kind |-> "pair", term |-> trim(SubSeq(line, TermStart(line, j), j - 1)),
              def |-> trim(SubSeq(line, j + 1, Len(line))), line |-> <<>>]

\* renderEssentials of page.js: null for '', else one <li> per line that
\* is not blank
renderEssentialsList(text) ==
    IF text = <<>> THEN <<>>
    ELSE LET lines == SelectSeq(SplitOn(text, {"\n"}), LAMBDA l : trim(l) # <<>>)
         IN  [k \in DOMAIN lines |-> ListItem(lines[k])]

Analysing == <<"A", "n", "a", "l", "y", "s", "i", "n", "g", ".", ".", ".">>

\* parseResponse as the mounted version defines it
ParseAs(v, text) == IF v = "part_002" THEN parseResponseMatch(text) ELSE parseResponse(text)

\* const structuredResult = result ? parseResponse(result) : null
structuredResult == ParseAs(variant, result)

\* the texts the rows of a card render: labels, values and tags
AttributeTexts(attributes) ==
    UNION { { attributes[a].label, attributes[a].value }
            \cup { attributes[a].tags[t] : t \in DOMAIN attributes[a].tags } :
            a \in DOMAIN attributes }

\* a panel that renders the reply itself where the Nutshell is empty
PanelTextsRawFallback ==
    LET sr == structuredResult
        list == renderEssentialsList(sr.essentials)
        grid == renderEssentials(sr.essentials)
    IN  { IF sr.nutshell # <<>> THEN sr.nutshell ELSE result, sr.context }
        \cup (IF variant = "part_002"
              THEN { grid[k].title : k \in DOMAIN grid }
                   \cup UNION { AttributeTexts(grid[k].attributes) : k \in DOMAIN grid }
              ELSE UNION { { list[k].term, list[k].def, list[k].line } : k \in DOMAIN list })

\* the texts the result panel renders: {structuredResult.nutshell ||
\* "Analysing..."}, what renderEssentials returns, and
\* {structuredResult.context}
PanelTexts ==
    LET sr == structuredResult
        list == renderEssentialsList(sr.essentials)
        grid == renderEssentials(sr.essentials)
    IN  { IF sr.nutshell # <<>> THEN sr.nutshell ELSE Analysing, sr.context }
        \cup (IF variant = "part_002"
              THEN { grid[k].title : k \in DOMAIN grid }
                   \cup UNION { AttributeTexts(grid[k].attributes) : k \in DOMAIN grid }
              ELSE UNION { { list[k].term, list[k].def, list[k].line } : k \in DOMAIN list })

---------------------------------------------------------------------------
(* The state machines *)

NoSections == [nutshell |-> <<>>, essentials |-> <<>>, context |-> <<>>]

InitServer ==
    /\ apiKey \in BOOLEAN
    /\ reqs = [i \in Slots |-> Idle]

InitUI ==
    /\ topic = <<>>
    /\ result = <<>>
    /\ loading = FALSE
    /\ error = ""
    /\ clipboard = <<>>
    /\ variant \in Variants
    /\ copyFeedback = ""
    /\ writes = <<>>
    /\ timers = <<>>
    /\ shownFor = 0

InitParse ==
    /\ bodies = NoSections
    /\ raw = <<>>
    /\ form = Plain
    /\ parser = "none"
    /\ sections = NoSections

InitItems ==
    /\ itemText = <<>>
    /\ blocks = <<>>
    /\ cards = <<>>
    /\ drawn = FALSE

InitApi == InitServer /\ InitUI /\ InitParse /\ InitItems

NextApi ==
    \/ \E i \in Slots, body \in Bodies : ClientPosts(i, body)
    \/ \E i \in Slots, c \in Completions : CompletionSettles(i, c)
    \/ \E i \in Slots : ClientReceives(i)

\* the endpoint under requests of arbitrary clients
SpecApi == InitApi /\ [][NextApi]_vars

\* a reply arrives as result: nothing has parsed it yet
Reply(b, f) ==
    /\ raw = <<>>
    /\ bodies' = Written(b, f)
    /\ raw' = ComposeAs(b, f)
    /\ form' = f
    /\ parser' = "none"
    /\ sections' = NoSections
    /\ UNCHANGED <<apiKey, reqs, uiVars, itemVars>>

\* a reply that holds no header arrives
ReplyPlain(t) ==
    /\ raw = <<>>
    /\ bodies' = NoSections
    /\ raw' = t
    /\ form' = Plain
    /\ parser' = "none"
    /\ sections' = NoSections
    /\ UNCHANGED <<apiKey, reqs, uiVars, itemVars>>

\* structuredResult = result ? parseResponse(result) : null, in page.js
ParsePage ==
    /\ raw # <<>>
    /\ parser = "none"
    /\ parser' = "page.js"
    /\ sections' = parseResponse(raw)
    /\ UNCHANGED <<apiKey, reqs, uiVars, itemVars, bodies, raw, form>>

\* the same line in the page with copy feedback
ParseMatch ==
    /\ raw # <<>>
    /\ parser = "none"
    /\ parser' = "match"
    /\ sections' = parseResponseMatch(raw)
    /\ UNCHANGED <<apiKey, reqs, uiVars, itemVars, bodies, raw, form>>

\* the same line in the first page
ParseStartsWith ==
    /\ raw # <<>>
    /\ parser = "none"
    /\ parser' = "startsWith"
    /\ sections' = parseResponseStartsWith(raw)
    /\ UNCHANGED <<apiKey, reqs, uiVars, itemVars, bodies, raw, form>>

\* setResult(''), in handleGenerate and in clearAll: nothing is left to parse
Discard ==
    /\ parser # "none"
    /\ bodies' = NoSections
    /\ raw' = <<>>
    /\ form' = Plain
    /\ parser' = "none"
    /\ sections' = NoSections
    /\ UNCHANGED <<apiKey, reqs, uiVars, itemVars>>

NextParse ==
    \/ \E b \in BodyTriples, f \in Forms : Reply(b, f)
    \/ \E t \in PlainReplies : ReplyPlain(t)
    \/ ParsePage
    \/ ParseMatch
    \/ ParseStartsWith
    \/ Discard

\* the section parsers on the replies of BodyTriples
SpecParse == InitApi /\ [][NextParse]_vars

\* the digits of a number below 100
Numeral(k) ==
    LET d == <<"0", "1", "2", "3", "4", "5", "6", "7", "8", "9">>
    IN  IF k < 10 THEN <<d[k + 1]>> ELSE <<d[(k \div 10) + 1], d[(k % 10) + 1]>>

\* items in the structure SYSTEM_PROMPT asks for: a title, attribute
\* lines, and three words of Vibe
BlockShapes ==
    { [title |-> <<"A">>, attrs |-> <<>>, tags |-> <<<<"x">>, <<"y">>, <<"z">>>>],
      [title |-> <<"B", " ", "-", " ", "c">>,
       attrs |-> << <<"W", "?", ":", " ", "a", ":", " ", "b">> >>,
       tags |-> <<<<"x">>, <<"y">>, <<"z">>>>],
      [title |-> <<"7", " ", "u", "p">>,
       attrs |-> << <<"W", ":", " ", "a">>, <<"I", ":", " ", "b">> >>,
       tags |-> <<<<"d", "r", "y">>, <<"y">>, <<"x", " ", "z">>>>] }

\* "<k>. title", the attribute lines, "Vibe: X, Y, Z"
BlockText(k, shape) ==
    Join(<<Numeral(k) \o <<".", " ">> \o shape.title>>
         \o shape.attrs
         \o <<Vibe \o <<":", " ">> \o shape.tags[1] \o <<",", " ">> \o shape.tags[2]
                   \o <<",", " ">> \o shape.tags[3]>>, "\n")

\* the blocks numbered from first on, with or without a blank line between
EssentialsText(shapes, first, gap) ==
    LET texts == [k \in DOMAIN shapes |-> BlockText(first + k - 1, shapes[k])]
        sep == [k \in DOMAIN shapes |-> IF gap /\ k > 1 THEN <<"\n">> \o texts[k] ELSE texts[k]]
    IN  Join(sep, "\n")

\* lines an Essentials text can hold: numbered lines, attribute lines,
\* blank lines, lines of an introduction
ItemLines ==
    { <<"1", ".", " ", "A">>, <<"1", "2", ".", " ", "B">>, <<" ", "2", ".", " ", "C">>,
      <<"V", ":", " ", "x">>, <<>>, <<"3", ".">>, <<"x">> }

\* the Essentials section is written from numbered blocks
WriteBlocks(shapes, first, gap) ==
    /\ itemText = <<>>
    /\ itemText' = EssentialsText(shapes, first, gap)
    /\ blocks' = shapes
    /\ UNCHANGED <<apiKey, reqs, uiVars, parseVars, cards, drawn>>

\* the Essentials section is any lines; renderEssentials gets it trimmed
\* and not empty
WriteLines(lines) ==
    /\ itemText = <<>>
    /\ trim(Join(lines, "\n")) # <<>>
    /\ itemText' = trim(Join(lines, "\n"))
    /\ blocks' = <<>>
    /\ UNCHANGED <<apiKey, reqs, uiVars, parseVars, cards, drawn>>

\* {renderEssentials(structuredResult.essentials)}
RenderEssentials ==
    /\ itemText # <<>>
    /\ ~drawn
    /\ cards' = renderEssentials(itemText)
    /\ drawn' = TRUE
    /\ UNCHANGED <<apiKey, reqs, uiVars, parseVars, itemText, blocks>>

\* setResult(''): the grid is gone
DiscardItems ==
    /\ drawn
    /\ itemText' = <<>>
    /\ blocks' = <<>>
    /\ cards' = <<>>
    /\ drawn' = FALSE
    /\ UNCHANGED <<apiKey, reqs, uiVars, parseVars>>

NextItems ==
    \/ \E n \in 1..MaxItems : \E shapes \in [1..n -> BlockShapes] :
          \E first \in {1, 9}, gap \in BOOLEAN : WriteBlocks(shapes, first, gap)
    \/ \E n \in 1..MaxLines : \E lines \in [1..n -> ItemLines] : WriteLines(lines)
    \/ RenderEssentials
    \/ DiscardItems

\* the item parser on Essentials texts
SpecItems == InitApi /\ [][NextItems]_vars

Init == InitApi

Next ==
    \/ \E v \in InputValues : onChange(v)
    \/ ClickGenerate
    \/ PressEnter
    \/ \E i \in Slots : POST(i)
    \/ \E i \in Slots, c \in Completions : CompletionSettles(i, c)
    \/ \E i \in Slots : FetchSettles(i)
    \/ \E i \in Slots : FetchRejects(i)
    \/ \E i \in Slots : BodyUnparsable(i)
    \/ copyToClipboard
    \/ copyToClipboardAsync
    \/ \E ok \in BOOLEAN : WriteSettles(ok)
    \/ TimerFires
    \/ \E d \in Steps : Elapse(d)
    \/ clearAll

\* the page and the endpoint behind it
Spec == Init /\ [][Next]_vars

\* the endpoint takes every request that reaches it, the completion call
\* settles, and the fetch of the page resolves or rejects
Settling ==
    /\ WF_vars(\E i \in Slots : POST(i))
    /\ WF_vars(\E i \in Slots, c \in Completions : CompletionSettles(i, c))
    /\ WF_vars(\E i \in Slots : FetchSettles(i) \/ FetchRejects(i) \/ BodyUnparsable(i))

\* the page and the endpoint, with every fetch settling
SpecSettling == Spec /\ Settling

---------------------------------------------------------------------------
(* What the claims speak of *)

Topic(i) == reqs[i].body.topic
Response(i) == reqs[i].response
Answered(i) == reqs[i].pc = "done"
UnderWay(i) == reqs[i].pc # "idle"

IsString(v) == v.t = "string"
OnlyWs(s) == \A k \in 1..Len(s) : IsWs(s[k])

\* the request carries a topic field that is a string
HasStringTopic(i) == UnderWay(i) /\ reqs[i].body.kind = "object" /\ IsString(Topic(i))

\* a topic that is neither empty, nor white space only, nor over 200
\* characters as received
ValidTopic(i) ==
    /\ HasStringTopic(i)
    /\ ~OnlyWs(Topic(i).s)
    /\ Len(Topic(i).s) <= MaxTopicLen

IsValidationError(resp) ==
    /\ resp.status = 400
    /\ DOMAIN resp.body = {"error"}

\* the completion step of the request failed: the service threw, or its
\* first choice had no content
CompletionFailed(i) ==
    /\ Answered(i)
    /\ reqs[i].completion.kind \in {"throws", "no choices", "empty content"}

\* the requests of the page that are under way
PageRequests == {i \in Slots : reqs[i].origin = "page"}

---------------------------------------------------------------------------
(* Claims *)

\* C1: a request whose topic is the empty string or white space only is
\* answered 400 with an error text and no result field, and the
\* completion service is not called for it.
C1_BlankTopicRejected ==
    \A i \in Slots :
        HasStringTopic(i) /\ OnlyWs(Topic(i).s) =>
            /\ reqs[i].calls = <<>>
            /\ reqs[i].pc # "awaiting"
            /\ Answered(i) => IsValidationError(Response(i))

C1_Witness ==
    \E i \in Slots :
        /\ apiKey
        /\ HasStringTopic(i)
        /\ Len(Topic(i).s) >= 1
        /\ Len(Topic(i).s) <= MaxTopicLen
        /\ OnlyWs(Topic(i).s)
        /\ Response(i) = TopicRequired

\* C2 as stated: a topic longer than 200 characters is answered 400, and a
\* topic of 1 to 200 characters, measured after trimming, passes
\* validation.
C2_LengthAfterTrim ==
    \A i \in Slots :
        HasStringTopic(i) /\ Answered(i) =>
            /\ Len(Topic(i).s) > MaxTopicLen => IsValidationError(Response(i))
            /\ Len(trim(Topic(i).s)) >= 1 /\ Len(trim(Topic(i).s)) <= MaxTopicLen
                    => Response(i).status # 400

\* C2 amended: the length is that of the topic as received.  A topic
\* longer than 200 characters is answered 400; a topic of 1 to 200
\* characters that is not white space only passes validation.
C2_LengthAsReceived ==
    \A i \in Slots :
        HasStringTopic(i) /\ Answered(i) =>
            /\ Len(Topic(i).s) > MaxTopicLen => IsValidationError(Response(i))
            /\ ValidTopic(i) => Response(i).status # 400

C2_Witness ==
    \E i \in Slots :
        /\ HasStringTopic(i)
        /\ Len(Topic(i).s) = MaxTopicLen
        /\ Answered(i)
        /\ Response(i).status = 200

\* C3: without the credential no request reaches the completion service,
\* and a request with a valid topic is answered 500 with the
\* configuration message.
C3_NoCallWithoutKey ==
    ~apiKey =>
        \A i \in Slots :
            /\ reqs[i].calls = <<>>
            /\ reqs[i].pc # "awaiting"
            /\ ValidTopic(i) /\ Answered(i) => Response(i) = NotConfigured

C3_Witness ==
    /\ ~apiKey
    /\ \E i \in Slots : ValidTopic(i) /\ Response(i) = NotConfigured

\* C4 as stated: without the credential every request, whatever its
\* topic, is answered 500 with the configuration message.
C4_AlwaysConfigurationError ==
    ~apiKey => \A i \in Slots : Answered(i) => Response(i) = NotConfigured

\* the topic fails the validation of POST: it is missing, empty, white
\* space only, or over 200 characters as received
FailsValidation(i) ==
    /\ UnderWay(i)
    /\ reqs[i].body.kind = "object"
    /\ \/ Topic(i).t = "undefined"
       \/ IsString(Topic(i)) /\ ~ValidTopic(i)

\* C4 amended: without the credential no request succeeds, and a request
\* is answered with the configuration error exactly when its topic passes
\* validation; a topic that fails validation is answered 400, as it is
\* with the credential.
C4_ConfigurationErrorIfValid ==
    ~apiKey =>
        \A i \in Slots :
            Answered(i) =>
                /\ Response(i).status \in {400, 500}
                /\ Response(i) = NotConfigured <=> ValidTopic(i)
                /\ FailsValidation(i) => IsValidationError(Response(i))

C4_Witness ==
    /\ ~apiKey
    /\ \E i, j \in Slots :
        /\ ValidTopic(i) /\ Response(i) = NotConfigured
        /\ FailsValidation(j) /\ Response(j) = TopicRequired

\* C5: every failure of the completion step is answered 500 with the one
\* generic message: the responses to any two failures are equal, whatever
\* the two errors were, and none carries the detail of its error.
C5_FailuresIndistinguishable ==
    \A i, j \in Slots :
        CompletionFailed(i) /\ CompletionFailed(j) =>
            /\ Response(i).status = 500
            /\ DOMAIN Response(i).body = {"error"}
            /\ Response(i) = Response(j)
            /\ Response(i).body.error \notin ErrorDetails

C5_Witness ==
    \E i, j \in Slots :
        /\ CompletionFailed(i)
        /\ CompletionFailed(j)
        /\ reqs[i].completion.kind = "throws"
        /\ reqs[j].completion.kind = "throws"
        /\ reqs[i].completion.detail # reqs[j].completion.detail
        /\ reqs[i].logged # reqs[j].logged

\* an input the claim C6 calls invalid
InvalidInput(i) ==
    \/ reqs[i].body.kind \in {"malformed", "null"}
    \/ reqs[i].body.kind = "object" /\ ~ValidTopic(i)

\* C6: every invalid input (unparsable body, topic missing, not a string,
\* blank, over 200 characters) is answered 400; 500 is answered only for
\* a missing credential or a failure of the completion step; a success
\* carries a non-empty result and no error.
C6_StatusByCause ==
    \A i \in Slots :
        Answered(i) =>
            /\ InvalidInput(i) => Response(i).status = 400
            /\ Response(i).status = 500 => ~apiKey \/ CompletionFailed(i)
            /\ Response(i).status = 200 =>
                    /\ DOMAIN Response(i).body = {"result"}
                    /\ Response(i).body.result # <<>>

\* the user message of the call POST made for the request
UserMessage(i) == reqs[i].calls[1].messages[2]

\* C7 as stated: the user message sent to the completion service is the
\* trimmed topic.
C7_TrimmedTopicSent ==
    \A i \in Slots :
        reqs[i].calls # <<>> => UserMessage(i).content = trim(Topic(i).s)

\* C7 amended: the user message is the topic as the page sent it and the
\* endpoint received it, surrounding white space included.
C7_TopicSentAsReceived ==
    \A i \in Slots :
        reqs[i].calls # <<>> =>
            /\ UserMessage(i).role = "user"
            /\ UserMessage(i).content = Topic(i).s
            /\ reqs[i].origin = "page" => UserMessage(i).content = topic

C7_Witness ==
    \E i \in Slots :
        /\ reqs[i].calls # <<>>
        /\ reqs[i].origin = "page"
        /\ UserMessage(i).content # trim(UserMessage(i).content)

\* the conversation is the fixed system prompt, then the topic
TwoMessages(call, v) ==
    /\ Len(call.messages) = 2
    /\ call.messages[1] = [role |-> "system", content |-> SYSTEM_PROMPT]
    /\ call.messages[2].role = "user"
    /\ call.messages[2].content = v.s

OneCallPerRequest ==
    \A i \in Slots :
        /\ Len(reqs[i].calls) <= 1
        /\ ValidTopic(i) /\ apiKey /\ reqs[i].pc \in {"awaiting", "done"} =>
                /\ Len(reqs[i].calls) = 1
                /\ TwoMessages(reqs[i].calls[1], Topic(i))

\* a step that puts a request of the page on the wire is a click on
\* GENERATE or Enter, taken while no request is in flight
SentOnlyOnTrigger ==
    Cardinality(PageRequests') > Cardinality(PageRequests) =>
        ~loading /\ (ClickGenerate \/ PressEnter)

\* C8: for a request the endpoint accepts the completion service is
\* invoked exactly once, with the system prompt and the topic, and never
\* again, whatever the service answers; the page sends a request only on
\* a trigger of the user.
C8_InvokedOnceNoRetry == []OneCallPerRequest /\ [][SentOnlyOnTrigger]_vars

C8_Witness ==
    \E i \in Slots :
        /\ reqs[i].origin = "page"
        /\ CompletionFailed(i)
        /\ Len(reqs[i].calls) = 1

AtMostOneInFlight ==
    /\ Cardinality(PageRequests) <= 1
    /\ loading <=> PageRequests # {}

\* a click on GENERATE or Enter while a request is in flight
IgnoredWhileLoading == loading /\ (ClickGenerate \/ PressEnter) => UNCHANGED vars

\* C9: at most one request of the page is in flight at any time, and a
\* trigger attempt made while one is in flight sends nothing and changes
\* no state.
C9_SingleRequestInFlight == []AtMostOneInFlight /\ [][IgnoredWhileLoading]_vars

C9_Witness ==
    /\ loading
    /\ \E i \in Slots : reqs[i].origin = "page" /\ reqs[i].pc = "awaiting"
    /\ ButtonDisabled
    /\ InputDisabled

\* the bodies, each without its leading and trailing white space
Trimmed(b) == [name \in SectionNames |-> trim(b[name])]

\* C10: for a reply made of the three headers in order, each followed by
\* a non-empty body, parseResponse returns the three bodies, trimmed;
\* also when the lines of the Essentials body start with item numbers.
C10_RoundTrip ==
    parser # "none" /\ form = Literal => sections = Trimmed(bodies)

\* what the parser p returns for a text
ParseWith(p, text) ==
    CASE p = "page.js" -> parseResponse(text)
      [] p = "match" -> parseResponseMatch(text)
      [] p = "startsWith" -> parseResponseStartsWith(text)

\* the phrase stands somewhere in the text, in any capitalisation
Contains(s, lit) == \E i \in 1..Len(s) : MatchCI(s, i, lit)

\* the text holds none of the three header phrases
HoldsNoHeader(s) == \A name \in SectionNames : ~Contains(s, Phrase[name])

\* C11: for a reply that holds none of the three headers parseResponse
\* returns the record of three empty strings.
C11_NoHeadersAllEmpty ==
    parser # "none" /\ HoldsNoHeader(raw) => sections = NoSections

C11_Witness ==
    /\ parser = "page.js"
    /\ HoldsNoHeader(raw)
    /\ SplitAhead(raw, 1)
    /\ Len(SplitParts(raw)) > 1
    /\ sections = NoSections

\* C12: in a reply whose headers carry their ordinals, each section is the
\* text between its header and the next header that is there: a section
\* whose header is missing is empty, every other section is the body
\* written under its header, and no section holds the header phrase of
\* another.
C12_SectionsDelimited ==
    parser # "none" /\ form.ordinals /\ form.caps = "literal" =>
        \A name \in SectionNames :
            /\ form.missing = name => sections[name] = <<>>
            /\ form.missing # name => sections[name] = trim(bodies[name])
            /\ \A other \in SectionNames \ {name} :
                    ~Contains(sections[name], Phrase[other])

\* C13: whatever the capitalisation of the three header phrases, the
\* sections are those of the same reply with the literal capitalisation.
C13_CaseInsensitive ==
    parser # "none" /\ form.ordinals /\ form.missing = "none" =>
        sections = ParseWith(parser, ComposeAs(bodies, Literal))

\* C14 as stated: a reply whose headers are written without ordinals is
\* segmented into the same sections as the reply with the ordinals.
C14_OrdinalOptional ==
    parser # "none" /\ ~form.ordinals /\ form.missing = "none" =>
        sections = ParseWith(parser, ComposeAs(bodies, [form EXCEPT !.ordinals = TRUE]))

\* the header phrase of the section stands at position i, with its
\* ordinal, a period and nothing but white space before it
OrdinalBefore(s, i, name) ==
    /\ MatchCI(s, i, Phrase[name])
    /\ \E j \in 1..(i - 2) :
        /\ s[j] = Ordinal[name]
        /\ s[j + 1] = "."
        /\ \A k \in (j + 2)..(i - 1) : IsWs(s[k])

HoldsOrdinalHeader(s) ==
    \E name \in SectionNames, i \in 1..Len(s) : OrdinalBefore(s, i, name)

\* C14 amended: the ordinal is required.  A header phrase is recognized
\* only where its ordinal stands before it: a reply in which no header
\* phrase follows its ordinal gives three empty sections.
C14_OrdinalRequired ==
    parser # "none" /\ ~HoldsOrdinalHeader(raw) => sections = NoSections

C14_Witness ==
    /\ parser = "match"
    /\ ~form.ordinals
    /\ form.missing = "none"
    /\ \A name \in SectionNames : Contains(raw, Phrase[name])
    /\ sections = NoSections

\* C15: for an Essentials text of n numbered blocks, each a title line,
\* attribute lines and a line "Vibe: X, Y, Z", the item parser gives n
\* cards in the order of the text; the title of each is its first line
\* without the ordinal, and its last attribute is the tags <<X, Y, Z>>.
C15_OneCardPerBlock ==
    drawn /\ blocks # <<>> =>
        /\ Len(cards) = Len(blocks)
        /\ \A k \in DOMAIN blocks :
            /\ cards[k].title = blocks[k].title
            /\ Len(cards[k].attributes) = Len(blocks[k].attrs) + 1
            /\ cards[k].attributes[Len(blocks[k].attrs) + 1] =
                    [kind |-> "tags", label |-> Vibe, value |-> <<>>, tags |-> blocks[k].tags]

C15_Witness ==
    /\ drawn
    /\ Len(blocks) >= 2
    /\ Len(cards) = Len(blocks)
    /\ SubSeq(itemText, 1, 3) = <<"9", ".", " ">>
    /\ \E k \in DOMAIN cards : Len(cards[k].attributes) = 3 /\ Len(cards[k].attributes[3].tags) = 3

\* the lines of the text that start a numbered block
NumberedLines(text) ==
    SelectSeq(SplitOn(text, {"\n"}), LAMBDA line : IsNumberedItem(trim(line)))

\* C16: the cards are the numbered lines of the text: there are as many
\* cards as lines matching "<integer>. ", and the title of each card is
\* taken from such a line.
C16_BlocksStartAtNumberedLines ==
    drawn =>
        /\ Len(cards) = Len(NumberedLines(itemText))
        /\ \A k \in DOMAIN cards :
                k \in DOMAIN NumberedLines(itemText)
                /\ cards[k].title = TitleLine(trim(NumberedLines(itemText)[k]))

\* a copy has shown its feedback text
FeedbackShown == copyFeedback' # ""

\* C17: a copy puts the reply on the clipboard and shows a feedback text,
\* and the feedback text disappears only when it has been shown for 2
\* seconds: no timer of an earlier copy clears it before.
C17_FeedbackForTwoSeconds ==
    [][ /\ copyToClipboard => FeedbackShown
        /\ \A ok \in BOOLEAN : WriteSettles(ok) =>
                /\ FeedbackShown
                /\ copyFeedback' = Copied => clipboard' = Head(writes)
        /\ copyFeedback # "" /\ copyFeedback' = "" => shownFor = FeedbackMs ]_vars

\* the local state of Home at first load
FirstLoad ==
    /\ topic = <<>>
    /\ result = <<>>
    /\ loading = FALSE
    /\ error = ""
    /\ copyFeedback = ""

\* C18: after clearAll the local state is the state at first load, the
\* feedback text included, and no result panel is shown.
C18_ClearRestoresFirstLoad ==
    [][clearAll => FirstLoad' /\ ~PanelShown']_vars

\* C19: when the endpoint answers a request of the page with an error, the
\* error text of the page is the error field of the response body.
C19_ErrorShownVerbatim ==
    [][\A i \in Slots :
            Answered(i) /\ ~Ok(Response(i)) /\ FetchSettles(i) =>
                error' = Response(i).body.error]_vars

\* C20: when no header of a reply is recognized, the panel shows the reply
\* as it came: the raw text is among the texts rendered.
C20_RawTextFallback ==
    PanelShown /\ structuredResult = NoSections =>
        \E t \in PanelTexts : Contains(t, trim(result))

\* C20, as the code has it: when no header of a reply is recognized, the
\* panel is shown with the placeholder "Analysing..." as its Nutshell, no
\* item and an empty context, and nothing else.
C20_PlaceholderShown ==
    PanelShown /\ structuredResult = NoSections =>
        PanelTexts = {Analysing, <<>>}

\* a reply without a recognized header is in the panel
C20_Witness ==
    /\ PanelShown
    /\ trim(result) # <<>>
    /\ structuredResult = NoSections
    /\ Analysing \in PanelTexts

\* handleGenerate ends: the continuation of its await of fetch or of
\* response.json(), through catch and finally
GenerationEnds(i) == FetchSettles(i) \/ FetchRejects(i) \/ BodyUnparsable(i)

\* exactly one of result and error is non-empty
OneOfResultAndError == (result # <<>>) # (error # "")

\* the fetch resolved with an HTTP success of the endpoint
HttpSuccess(i) == Answered(i) /\ Ok(Response(i)) /\ FetchSettles(i)

EndsLoading ==
    \A i \in Slots : GenerationEnds(i) =>
        /\ loading /\ ~loading'
        /\ OneOfResultAndError'
        /\ (result' # <<>>) <=> HttpSuccess(i)

\* C21: every end of a generation (the fetch resolves with a success, with
\* an error status or with an unparsable body, or rejects) sets loading to
\* false and leaves exactly one of result and error non-empty, result on an
\* HTTP success and error otherwise; result and error are never both
\* non-empty; and when every fetch settles, loading always becomes false.
C21_GenerationEndsLoading ==
    /\ [](~(result # <<>> /\ error # ""))
    /\ [][EndsLoading]_vars
    /\ (loading ~> ~loading)

\* a generation ended on a success and another on an error
C21_Witness ==
    /\ ~loading
    /\ result = <<>>
    /\ error # ""
    /\ \A i \in Slots : reqs[i].pc = "idle"
    /\ topic # <<>>

\* a request of the page is in flight
InFlight(i) == UnderWay(i) /\ reqs[i].origin = "page"

\* while a request is in flight the page is loading, shows no result, and
\* its topic is the topic that was sent
InFlightOfTopic ==
    \A i \in Slots : InFlight(i) =>
        loading /\ ~PanelShown /\ Topic(i) = Str(topic)

\* COPY TEXT and CLEAR / NEW are handled only with no request in flight
CopyAndClearOutsideFlight ==
    clearAll \/ copyToClipboard \/ copyToClipboardAsync =>
        ~loading /\ \A i \in Slots : ~InFlight(i)

\* a reply is put on display only for the topic in the input
ReplyOfTopic ==
    \A i \in Slots : FetchSettles(i) /\ result' # <<>> =>
        Topic(i) = Str(topic') /\ trim(topic') # <<>>

\* C22: while loading the result is empty; COPY TEXT and CLEAR / NEW are
\* never handled while a request is in flight, so no response reaches a
\* state the user has cleared; and a reply is displayed only for the topic
\* that is in the input, never for a cleared one.
C22_NoResultWhileLoading ==
    /\ [](loading => result = <<>>)
    /\ []InFlightOfTopic
    /\ [][CopyAndClearOutsideFlight /\ ReplyOfTopic]_vars

\* a reply was shown and copied, and the next request is in flight
C22_Witness ==
    /\ loading
    /\ result = <<>>
    /\ clipboard # <<>>
    /\ \E i \in Slots : InFlight(i) /\ Answered(i) /\ Ok(Response(i))

=============================================================================
